---- MODULE Spec2Model ----
(***************************************************************************)
(* A model of docker_healthcheck.py (check_health and the module's entry   *)
(* point) and of the helpers of DockerContainerDaemon that carry logic of  *)
(* their own: task_run's retry wrapper and get_next_port's allocation.     *)
(*                                                                         *)
(* Python values are written as strings: "True", "False", "None".          *)
(***************************************************************************)
EXTENDS Integers, Sequences, FiniteSets, TLC

VARIABLES
    \* ---- docker_healthcheck.py ----
    name,          \* __name__ of the module: "__main__" or "docker_healthcheck"
    config_HOST,   \* config.HOST
    config_PORT,   \* config.PORT
    listening,     \* environment: ports of the resolvable host with a listener
    pc,            \* position of the module / of check_health
    caller,        \* who called check_health: "module" or "test"
    args,          \* the positional arguments of the current call
    url,           \* local url of check_health
    gets,          \* requests.get calls issued by the current invocation
    status_code,   \* response.status_code, 0 before a response
    exc,           \* exception raised inside the try block, "None" if none
    result,        \* value returned by check_health, "None" if none
    raised,        \* exception that left check_health, "None" if none
    out,           \* lines printed by the current invocation
    exit_status,   \* exit status of the process, -1 while it runs
    \* ---- DockerContainerDaemon.task_run ----
    tr_pc,         \* position of wrapper
    max_retries,   \* argument of task_run
    retry,         \* local retry of wrapper
    fcalls,        \* outcomes of the calls of func made by the current wrapper call
    sleeps,        \* sleep(1) calls of the current wrapper call
    tr_result,     \* value returned by wrapper, "None" if none
    tr_raised,     \* exception that left wrapper, "None" if none
    \* ---- DockerContainerDaemon.get_next_port / __init__ ----
    ports,         \* DockerContainerDaemon.ports
    inUse,         \* environment: ports on which connect_ex returns 0
    gp_pc,         \* position of get_next_port
    gp_caller,     \* "init" when called from __init__, "direct" otherwise
    gp_port,       \* local port of get_next_port
    probed,        \* ports this call found in use with is_port_in_use
    foundFree,     \* ports this call found not in use with is_port_in_use
    before,        \* DockerContainerDaemon.ports when the current call began
    ret,           \* value returned by get_next_port, 0 if none
    self_port      \* self._port of the daemon last constructed

hcVars == <<name, config_HOST, config_PORT, listening, pc, caller, args, url,
            gets, status_code, exc, result, raised, out, exit_status>>
trVars == <<tr_pc, max_retries, retry, fcalls, sleeps, tr_result, tr_raised>>
gpVars == <<ports, inUse, gp_pc, gp_caller, gp_port, probed, foundFree,
            before, ret, self_port>>
vars == <<hcVars, trVars, gpVars>>

(***************************************************************************)
(*                          docker_healthcheck.py                          *)
(***************************************************************************)

\* Hosts config.HOST may name: the address the tests set, a name that does
\* not resolve, and the empty string (which makes the URL malformed).
Hosts == {"0.0.0.0", "whatever_host", ""}
ResolvableHosts == {"0.0.0.0"}
PortNames == {"5000", "8088"}
Paths == {"/health", "/invalid_endpoint"}
StatusCodes == {200, 201, 204, 301, 404, 500}

\* requests.exceptions: the classes requests.get raises, and those of them
\* that are subclasses of requests.exceptions.ConnectionError.
RequestExceptions ==
    {"ConnectionError", "ConnectTimeout", "ReadTimeout", "InvalidURL",
     "TooManyRedirects"}
ConnectionErrors == {"ConnectionError", "ConnectTimeout"}

\* The f-string of line 17.
FormatUrl(h, p, path) == "http://" \o h \o ":" \o p \o path

\* What requests.get(url) can produce: <<"response", code>> or <<"raise", e>>.
Target(u) ==
    CHOOSE t \in Hosts \X PortNames \X Paths : FormatUrl(t[1], t[2], t[3]) = u

RequestsGet(u, listen) ==
    LET h == Target(u)[1]
        p == Target(u)[2]
        path == Target(u)[3]
    IN  IF h = "" THEN {<<"raise", "InvalidURL">>}
        ELSE IF h \notin ResolvableHosts THEN {<<"raise", "ConnectionError">>}
        ELSE IF p \notin listen
             THEN {<<"raise", "ConnectionError">>, <<"raise", "ConnectTimeout">>}
        ELSE (IF path = "/health"
                THEN {<<"response", c>> : c \in StatusCodes}
                ELSE {<<"response", 404>>})
             \cup {<<"raise", e>> :
                     e \in {"ConnectionError", "ReadTimeout", "TooManyRedirects"}}

\* Line 20: the test of the status code (IsHealthy2xx: the variant that
\* accepts every 2xx status).
IsHealthy2xx(code) == code \in 200..299
IsHealthy(code) == code = 200

\* Line 26: the exceptions the except clause catches (variants: a clause
\* naming requests.exceptions.Timeout, and one naming every exception).
CatchesTimeouts(e) == e \in {"ConnectTimeout", "ReadTimeout"}
CatchesException(e) == e \in RequestExceptions
Catches(e) == e \in ConnectionErrors

\* Lines 21-22, 24-25 and 27-28: what each branch prints and returns
\* (variants: a handler without its print, an else branch without its return).
PassedLines == <<"Healthcheck passed">>
FailedLines == <<"Healthcheck failed">>
ExceptLinesNone == <<>>
ExceptLines == <<"Healthcheck failed">>
ElseReturnNone == "None"
ElseReturn == "False"

\* Python's "not" on the values check_health can hand back.
PyNot(v) == v \in {"False", "None"}

\* Lines 31-32 and the interpreter's own exit: sys.exit(1) when the call
\* returned a false value, status 1 with a traceback when an exception left
\* it, status 0 when the module ran to its end (variant: no sys.exit(1)).
ExitStatusAlwaysZero(res, rsd) == IF rsd # "None" THEN 1 ELSE 0
ExitStatus(res, rsd) ==
    IF rsd # "None" THEN 1 ELSE IF PyNot(res) THEN 1 ELSE 0

\* The argument lists the callers use: check_health(), check_health(port)
\* and check_health(port, path) as in test_check_invalid_path_endpoint.
CallArgs ==
    {<<>>} \cup {<<p>> : p \in PortNames}
           \cup {<<p, path>> : p \in PortNames, path \in Paths}

hcInit ==
    /\ name \in {"__main__", "docker_healthcheck"}
    /\ config_HOST \in Hosts
    /\ config_PORT \in PortNames
    /\ listening \in SUBSET PortNames
    /\ pc = "start"
    /\ caller = "None"
    /\ args = <<>>
    /\ url = "None"
    /\ gets = 0
    /\ status_code = 0
    /\ exc = "None"
    /\ result = "None"
    /\ raised = "None"
    /\ out = <<>>
    /\ exit_status = -1

hcIdle ==
    /\ name = "docker_healthcheck"
    /\ config_HOST = "0.0.0.0"
    /\ config_PORT = "5000"
    /\ listening = {}
    /\ pc = "start"
    /\ caller = "None"
    /\ args = <<>>
    /\ url = "None"
    /\ gets = 0
    /\ status_code = 0
    /\ exc = "None"
    /\ result = "None"
    /\ raised = "None"
    /\ out = <<>>
    /\ exit_status = -1

\* A call check_health(*a) by c: line 6 binds the arguments (one parameter,
\* port, with default config.PORT; a second positional argument is a
\* TypeError raised at the call) and line 17 builds the URL.
CallCheckHealth(a, c) ==
    /\ caller' = c
    /\ args' = a
    /\ gets' = 0
    /\ status_code' = 0
    /\ exc' = "None"
    /\ result' = "None"
    /\ out' = <<>>
    /\ IF Len(a) > 1
         THEN /\ raised' = "TypeError"
              /\ url' = "None"
              /\ pc' = "done"
         ELSE /\ raised' = "None"
              /\ url' = FormatUrl(config_HOST,
                                  IF Len(a) = 0 THEN config_PORT ELSE a[1],
                                  "/health")
              /\ pc' = "get"
    /\ UNCHANGED <<name, config_HOST, config_PORT, listening, exit_status>>

\* Line 31: run as a script the module calls check_health(); imported, the
\* "and" short-circuits and nothing is called.
ModuleRun ==
    /\ pc = "start"
    /\ IF name = "__main__"
         THEN CallCheckHealth(<<>>, "module")
         ELSE /\ pc' = "imported"
              /\ UNCHANGED <<name, config_HOST, config_PORT, listening, caller,
                             args, url, gets, status_code, exc, result, raised,
                             out, exit_status>>
    /\ UNCHANGED <<trVars, gpVars>>

\* The tests call check_health of the imported module.
TestCall ==
    /\ pc = "imported"
    /\ \E a \in CallArgs : CallCheckHealth(a, "test")
    /\ UNCHANGED <<trVars, gpVars>>

\* The environment between two calls: a listener comes or goes.
ListenerChange ==
    /\ pc = "imported"
    /\ \E p \in PortNames :
         listening' = IF p \in listening THEN listening \ {p}
                                         ELSE listening \cup {p}
    /\ UNCHANGED <<name, config_HOST, config_PORT, pc, caller, args, url, gets,
                   status_code, exc, result, raised, out, exit_status>>
    /\ UNCHANGED <<trVars, gpVars>>

\* Line 18: response = requests.get(url).
Get ==
    /\ pc = "get"
    /\ gets' = gets + 1
    /\ \E o \in RequestsGet(url, listening) :
         IF o[1] = "response"
           THEN /\ status_code' = o[2]
                /\ exc' = "None"
                /\ pc' = "branch"
           ELSE /\ status_code' = 0
                /\ exc' = o[2]
                /\ pc' = "except"
    /\ UNCHANGED <<name, config_HOST, config_PORT, listening, caller, args, url,
                   result, raised, out, exit_status>>
    /\ UNCHANGED <<trVars, gpVars>>

\* Lines 20-25.
Branch ==
    /\ pc = "branch"
    /\ IF IsHealthy(status_code)
         THEN /\ out' = out \o PassedLines
              /\ result' = "True"
         ELSE /\ out' = out \o FailedLines
              /\ result' = ElseReturn
    /\ pc' = "done"
    /\ UNCHANGED <<name, config_HOST, config_PORT, listening, caller, args, url,
                   gets, status_code, exc, raised, exit_status>>
    /\ UNCHANGED <<trVars, gpVars>>

\* Lines 26-28: the except clause, or the exception leaving the function.
Except ==
    /\ pc = "except"
    /\ IF Catches(exc)
         THEN /\ out' = out \o ExceptLines
              /\ result' = "False"
              /\ raised' = "None"
         ELSE /\ raised' = exc
              /\ UNCHANGED <<out, result>>
    /\ pc' = "done"
    /\ UNCHANGED <<name, config_HOST, config_PORT, listening, caller, args, url,
                   gets, status_code, exc, exit_status>>
    /\ UNCHANGED <<trVars, gpVars>>

\* Lines 31-32: the process ends after the one call of the entry point.
ModuleExit ==
    /\ pc = "done"
    /\ caller = "module"
    /\ exit_status' = ExitStatus(result, raised)
    /\ pc' = "exited"
    /\ UNCHANGED <<name, config_HOST, config_PORT, listening, caller, args, url,
                   gets, status_code, exc, result, raised, out>>
    /\ UNCHANGED <<trVars, gpVars>>

\* The call returns (or raises) into the test, which may call again.
TestReturn ==
    /\ pc = "done"
    /\ caller = "test"
    /\ pc' = "imported"
    /\ UNCHANGED <<name, config_HOST, config_PORT, listening, caller, args, url,
                   gets, status_code, exc, result, raised, out, exit_status>>
    /\ UNCHANGED <<trVars, gpVars>>

(***************************************************************************)
(*                     DockerContainerDaemon.task_run                      *)
(***************************************************************************)

\* Largest max_retries the model passes to task_run (the default is 3).
MaxRetries == 3

\* What a call of func can do: return a value, raise an exception derived
\* from Exception, or raise one that derives from BaseException only.
ExceptionClasses == {"Exception", "NotFound"}
BaseExceptionClasses == {"KeyboardInterrupt", "SystemExit"}
FuncOutcomes ==
    {<<"return", v>> : v \in {"True", "False"}}
    \cup {<<"raise", e>> : e \in ExceptionClasses \cup BaseExceptionClasses}

\* Line 222: except Exception.
CaughtByWrapper(e) == e \in ExceptionClasses

\* Line 218: the test that leaves the loop (variant: > for >=).
LoopExitOffByOne(r, m) == r > m
LoopExit(r, m) == r >= m

trInit ==
    /\ tr_pc = "idle"
    /\ max_retries = 3
    /\ retry = 0
    /\ fcalls = <<>>
    /\ sleeps = 0
    /\ tr_result = "None"
    /\ tr_raised = "None"

\* task_run(func, m)(...): the wrapper starts with retry = 0 (line 216).
WrapperCall ==
    /\ tr_pc = "idle"
    /\ \E m \in -1..MaxRetries : max_retries' = m
    /\ retry' = 0
    /\ fcalls' = <<>>
    /\ sleeps' = 0
    /\ tr_result' = "None"
    /\ tr_raised' = "None"
    /\ tr_pc' = "loop"
    /\ UNCHANGED <<hcVars, gpVars>>

\* Lines 217-219 and 226: the head of the loop; break leads to return False.
LoopTest ==
    /\ tr_pc = "loop"
    /\ IF LoopExit(retry, max_retries)
         THEN /\ tr_result' = "False"
              /\ tr_pc' = "done"
         ELSE /\ tr_pc' = "call"
              /\ UNCHANGED tr_result
    /\ UNCHANGED <<max_retries, retry, fcalls, sleeps, tr_raised>>
    /\ UNCHANGED <<hcVars, gpVars>>

\* Lines 220-225: one call of func inside the try.
FuncCall ==
    /\ tr_pc = "call"
    /\ \E o \in FuncOutcomes :
         /\ fcalls' = Append(fcalls, o)
         /\ IF o[1] = "return"
              THEN /\ tr_result' = o[2]
                   /\ tr_pc' = "done"
                   /\ UNCHANGED <<retry, sleeps, tr_raised>>
              ELSE IF CaughtByWrapper(o[2])
                THEN /\ retry' = retry + 1
                     /\ sleeps' = sleeps + 1
                     /\ tr_pc' = "loop"
                     /\ UNCHANGED <<tr_result, tr_raised>>
                ELSE /\ tr_raised' = o[2]
                     /\ tr_pc' = "done"
                     /\ UNCHANGED <<retry, sleeps, tr_result>>
    /\ UNCHANGED max_retries
    /\ UNCHANGED <<hcVars, gpVars>>

\* The wrapper hands its result (or the exception) to its caller.
WrapperReturn ==
    /\ tr_pc = "done"
    /\ tr_pc' = "idle"
    /\ UNCHANGED <<max_retries, retry, fcalls, sleeps, tr_result, tr_raised>>
    /\ UNCHANGED <<hcVars, gpVars>>

(***************************************************************************)
(*             DockerContainerDaemon.get_next_port, __init__               *)
(***************************************************************************)

\* Line 148.
BasePort == 5000
\* Number of ports from BasePort on that other processes may occupy.
MaxBusy == 3
\* Number of get_next_port calls the model follows.
MaxCalls == 3

BusyRange == BasePort..(BasePort + MaxBusy - 1)

\* Line 149, left operand: port in DockerContainerDaemon.ports (variant: the
\* operand left out).
AlreadyTakenNever(p, ps) == FALSE
AlreadyTaken(p, ps) == \E i \in 1..Len(ps) : ps[i] = p

\* Lines 144-146: connect_ex(("localhost", port)) == 0.
is_port_in_use(p) == p \in inUse

gpInit ==
    /\ ports = <<>>
    /\ inUse \in SUBSET BusyRange
    /\ gp_pc = "idle"
    /\ gp_caller = "None"
    /\ gp_port = 0
    /\ probed = {}
    /\ foundFree = {}
    /\ before = <<>>
    /\ ret = 0
    /\ self_port = "None"

gpIdle ==
    /\ ports = <<>>
    /\ inUse = {}
    /\ gp_pc = "idle"
    /\ gp_caller = "None"
    /\ gp_port = 0
    /\ probed = {}
    /\ foundFree = {}
    /\ before = <<>>
    /\ ret = 0
    /\ self_port = "None"

\* Line 148: get_next_port begins, called by c.
EnterGetNextPort(c) ==
    /\ Len(ports) < MaxCalls
    /\ gp_caller' = c
    /\ gp_port' = BasePort
    /\ probed' = {}
    /\ foundFree' = {}
    /\ before' = ports
    /\ ret' = 0
    /\ gp_pc' = "loop"
    /\ UNCHANGED <<ports, inUse, self_port>>

\* A test calls the static method itself.
GetNextPortCall ==
    /\ gp_pc = "idle"
    /\ EnterGetNextPort("direct")
    /\ UNCHANGED <<hcVars, trVars>>

\* Lines 258-260 of __init__: port 0 asks get_next_port, any other port is
\* kept as given and DockerContainerDaemon.ports is not touched.
Construct ==
    /\ gp_pc = "idle"
    /\ \E p \in {0, BasePort, BasePort + 1} :
         IF p = 0
           THEN EnterGetNextPort("init")
           ELSE /\ self_port' = ToString(p)
                /\ UNCHANGED <<ports, inUse, gp_pc, gp_caller, gp_port, probed,
                               foundFree, before, ret>>
    /\ UNCHANGED <<hcVars, trVars>>

\* Lines 149-153: one evaluation of the while condition ("or" evaluates
\* is_port_in_use only when the port is not in the list), then either the
\* increment or the append and return.
LoopStep ==
    /\ gp_pc = "loop"
    /\ IF AlreadyTaken(gp_port, ports)
         THEN /\ gp_port' = gp_port + 1
              /\ UNCHANGED <<ports, probed, foundFree, ret, gp_pc>>
         ELSE IF is_port_in_use(gp_port)
           THEN /\ gp_port' = gp_port + 1
                /\ probed' = probed \cup {gp_port}
                /\ UNCHANGED <<ports, foundFree, ret, gp_pc>>
           ELSE /\ foundFree' = foundFree \cup {gp_port}
                /\ ports' = Append(ports, gp_port)
                /\ ret' = gp_port
                /\ gp_pc' = "done"
                /\ UNCHANGED <<gp_port, probed>>
    /\ UNCHANGED <<inUse, gp_caller, before, self_port>>
    /\ UNCHANGED <<hcVars, trVars>>

\* The value goes back to the caller; __init__ stores str(port) (line 260).
GetNextPortReturn ==
    /\ gp_pc = "done"
    /\ gp_pc' = "idle"
    /\ self_port' = IF gp_caller = "init" THEN ToString(ret) ELSE self_port
    /\ UNCHANGED <<ports, inUse, gp_caller, gp_port, probed, foundFree, before,
                   ret>>
    /\ UNCHANGED <<hcVars, trVars>>

\* The environment: another process opens or closes a port at any time.
PortChange ==
    /\ \E p \in BusyRange :
         inUse' = IF p \in inUse THEN inUse \ {p} ELSE inUse \cup {p}
    /\ UNCHANGED <<ports, gp_pc, gp_caller, gp_port, probed, foundFree, before,
                   ret, self_port>>
    /\ UNCHANGED <<hcVars, trVars>>

(***************************************************************************)
(*                             Specifications                              *)
(***************************************************************************)

\* check_health and the entry point.
Init == hcInit /\ trInit /\ gpIdle
Next ==
    \/ ModuleRun
    \/ TestCall
    \/ ListenerChange
    \/ Get
    \/ Branch
    \/ Except
    \/ ModuleExit
    \/ TestReturn
Spec == Init /\ [][Next]_vars

\* The wrapper of task_run.
InitRetry == hcIdle /\ trInit /\ gpIdle
NextRetry ==
    \/ WrapperCall
    \/ LoopTest
    \/ FuncCall
    \/ WrapperReturn
SpecRetry == InitRetry /\ [][NextRetry]_vars

\* get_next_port and __init__.
InitPorts == hcIdle /\ trInit /\ gpInit
NextPorts ==
    \/ GetNextPortCall
    \/ Construct
    \/ LoopStep
    \/ GetNextPortReturn
    \/ PortChange
SpecPorts == InitPorts /\ [][NextPorts]_vars

(***************************************************************************)
(*                               Properties                                *)
(***************************************************************************)

\* C1: whenever the GET of an invocation of check_health yielded a response,
\* the result is True if and only if the status code is exactly 200, and
\* every other status code gives False.
C1_HealthyIffStatus200 ==
    (pc = "done" /\ status_code # 0) =>
        /\ (result = "True") <=> (status_code = 200)
        /\ (status_code # 200) => (result = "False" /\ raised = "None")

\* A response with a 2xx status other than 200 has been answered Unhealthy.
C1_Witness ==
    pc = "done" /\ gets = 1 /\ status_code = 201 /\ result = "False"

\* C2: when the GET fails with a connection failure, check_health returns
\* False and no exception leaves it.
C2_ConnectionFailureIsUnhealthy ==
    (pc = "done" /\ exc \in ConnectionErrors) =>
        (result = "False" /\ raised = "None")

\* The configured host does not resolve, the GET raised ConnectionError and
\* the call returned False.
C2_Witness ==
    /\ pc = "done"
    /\ config_HOST = "whatever_host"
    /\ exc = "ConnectionError"
    /\ result = "False"
    /\ raised = "None"

\* C3: run as the entry point, the process exits with status 0 when the one
\* check returned Healthy and with status 1 when it returned Unhealthy.
C3_ExitStatusFollowsVerdict ==
    (pc = "exited") =>
        /\ caller = "module" /\ args = <<>>
        /\ (result = "True") => (exit_status = 0)
        /\ (result = "False") => (exit_status = 1)

\* The entry point got a non-200 answer and the process exited with 1.
C3_Witness ==
    /\ pc = "exited"
    /\ name = "__main__"
    /\ status_code = 500
    /\ result = "False"
    /\ exit_status = 1

\* C4: a call with the port of a listening server and a path the server does
\* not have returns Unhealthy, and the URL requested is built from the
\* host, the port and the path the caller gave.
C4_InvalidPathIsUnhealthy ==
    /\ (pc = "get" /\ Len(args) = 2) =>
           (url = FormatUrl(config_HOST, args[1], args[2]))
    /\ (/\ pc = "done"
        /\ Len(args) = 2
        /\ args[2] = "/invalid_endpoint"
        /\ args[1] \in listening
        /\ config_HOST \in ResolvableHosts
        /\ exc = "None") =>
           (result = "False" /\ raised = "None")

\* C5: an invocation that returns a verdict has printed exactly one line,
\* "Healthcheck passed" exactly when the verdict is True and "Healthcheck
\* failed" exactly when it is False, the caught connection failure included.
C5_OneLineMatchingVerdict ==
    (pc = "done" /\ result # "None") =>
        /\ Len(out) = 1
        /\ (out[1] = "Healthcheck passed") <=> (result = "True")
        /\ (out[1] = "Healthcheck failed") <=> (result = "False")

\* A caught connection failure has printed the one line "Healthcheck failed".
C5_Witness ==
    /\ pc = "done"
    /\ exc \in ConnectionErrors
    /\ result = "False"
    /\ out = <<"Healthcheck failed">>

\* C6: a failure of the GET that is not a connection failure leaves
\* check_health as an exception: nothing is returned and nothing is printed.
C6_OtherFailuresPropagate ==
    (pc = "done" /\ exc # "None" /\ exc \notin ConnectionErrors) =>
        (raised = exc /\ result = "None" /\ out = <<>>)

\* The malformed URL of an empty host raised InvalidURL, which left the call.
C6_Witness ==
    /\ pc = "done"
    /\ config_HOST = ""
    /\ exc = "InvalidURL"
    /\ raised = "InvalidURL"
    /\ out = <<>>

\* C7 as stated: every invocation ends as Healthy or as Unhealthy and in no
\* other way.
C7_OnlyTwoOutcomes ==
    (pc = "done") => (result \in {"True", "False"} /\ raised = "None")

\* C7 as amended: every invocation that ends either returns one of the two
\* verdicts, True or False, or is left by an exception without a verdict.
C7_VerdictOrException ==
    (pc = "done") =>
        \/ (result \in {"True", "False"} /\ raised = "None")
        \/ (result = "None" /\ raised # "None")

\* An invocation that the GET's ReadTimeout ended without a verdict.
C7_Witness ==
    pc = "done" /\ gets = 1 /\ raised = "ReadTimeout" /\ result = "None"

\* C8: every invocation of check_health issues exactly one GET.
C8_ExactlyOneGet ==
    /\ gets <= 1
    /\ (pc = "done") => (gets = 1)

Max(a, b) == IF a >= b THEN a ELSE b

AllRaised(calls) == \A i \in 1..Len(calls) : calls[i][1] = "raise"

\* C9 as stated: the wrapper calls func at most max_retries times, returns
\* the result of the first call that does not raise and calls no more, and
\* returns False, never raising, once max_retries calls have raised; with
\* max_retries <= 0 func is not called and False is returned.
C9_RetryWrapper ==
    LET n == Len(fcalls)
        m == Max(max_retries, 0)
    IN  /\ n <= m
        /\ (tr_pc = "done") =>
             /\ \A i \in 1..(n - 1) : fcalls[i][1] = "raise"
             /\ (n > 0 /\ fcalls[n][1] = "return") =>
                    (tr_result = fcalls[n][2] /\ tr_raised = "None")
             /\ (AllRaised(fcalls) /\ n = m) =>
                    (tr_result = "False" /\ tr_raised = "None")

\* C9 as amended: as stated for exceptions derived from Exception; an
\* exception of func that is not derived from Exception leaves the wrapper
\* at once, with no result and no further call.
C9_RetryWrapperExceptionOnly ==
    LET n == Len(fcalls)
        m == Max(max_retries, 0)
    IN  /\ n <= m
        /\ (tr_pc = "done") =>
             /\ \A i \in 1..(n - 1) :
                    fcalls[i][1] = "raise" /\ fcalls[i][2] \in ExceptionClasses
             /\ (n > 0 /\ fcalls[n][1] = "return") =>
                    (tr_result = fcalls[n][2] /\ tr_raised = "None")
             /\ (n > 0 /\ fcalls[n][1] = "raise"
                       /\ fcalls[n][2] \notin ExceptionClasses) =>
                    (tr_raised = fcalls[n][2] /\ tr_result = "None")
             /\ (\A i \in 1..n : fcalls[i][1] = "raise"
                                 /\ fcalls[i][2] \in ExceptionClasses) =>
                    (n = m /\ tr_result = "False" /\ tr_raised = "None")

\* With the default of three retries, three calls raised and the wrapper
\* returned False.
C9_Witness ==
    /\ tr_pc = "done"
    /\ max_retries = 3
    /\ Len(fcalls) = 3
    /\ \A i \in 1..3 : fcalls[i][2] \in ExceptionClasses
    /\ tr_result = "False"
    /\ tr_raised = "None"

Elements(s) == {s[i] : i \in 1..Len(s)}

\* C10: DockerContainerDaemon.ports never holds a port twice, and a port
\* that get_next_port returns is at least 5000, was returned by no earlier
\* call, was found not in use when it was chosen, and is the smallest such
\* port: every smaller port from 5000 on was returned before or was found
\* in use by this call.
C10_NextPortIsSmallestFree ==
    /\ \A i, j \in 1..Len(ports) : (ports[i] = ports[j]) => (i = j)
    /\ \A i \in 1..Len(ports) : ports[i] >= BasePort
    /\ (gp_pc = "done") =>
         /\ ports = Append(before, ret)
         /\ ret >= BasePort
         /\ ret \notin Elements(before)
         /\ ret \in foundFree
         /\ \A q \in BasePort..(ret - 1) :
                q \in Elements(before) \/ q \in probed

\* A call that stepped over a port returned earlier and over a port in use.
C10_Witness ==
    /\ gp_pc = "done"
    /\ before # <<>>
    /\ probed # {}
    /\ ret = BasePort + 2
    /\ Len(ports) = 2
====
